---- MODULE Spec2Model ----
(***************************************************************************)
(* Model of packages/express-decorator/src/index.ts: the decorators that   *)
(* attach controller and handler metadata, and the three operations that   *)
(* applyExpressDecorator installs on an Express application                *)
(* (useControllers, useMiddlewares, useErrorMiddleware).                   *)
(*                                                                         *)
(* JavaScript values are records [kind, name, id]; the Express application *)
(* is the sequence of app.use calls it has received, each with the router  *)
(* (sequence of route registrations) that was passed to it.                *)
(***************************************************************************)
EXTENDS Integers, Sequences, FiniteSets, TLC

VARIABLES
    container,       \* the container given to applyExpressDecorator
    fresh,           \* number of instances a transient container has created
    controllerMeta,  \* 'malmajs:controller' metadata, by class (its prototype)
    handlerMeta,     \* 'malmajs:handler' metadata, by <<class, property key>>
    app,             \* the app.use calls received so far, in order
    last,            \* the latest use* call: its arguments and its outcome
    prev,            \* the use* call before it
    nCalls,          \* number of use* calls made
    nDecorations,    \* number of decorator applications made after load
    mws,             \* input of transformMiddlewares (SpecTransform)
    out              \* its outcome (SpecTransform)

vars == <<container, fresh, controllerMeta, handlerMeta, app, last, prev,
          nCalls, nDecorations, mws, out>>

\* ---------------------------------------------------------------- bounds
MaxCalls == 2
MaxDecorations == 1
MaxLen == 2

\* ---------------------------------------------------------------- values
Str(s) == [kind |-> "string", name |-> s, id |-> 0]
Num(s) == [kind |-> "number", name |-> s, id |-> 0]
Arrow(n) == [kind |-> "arrow", name |-> n, id |-> 0]
Func(n) == [kind |-> "function", name |-> n, id |-> 0]
Class(n) == [kind |-> "class", name |-> n, id |-> 0]
Inst(c, i) == [kind |-> "instance", name |-> c, id |-> i]
Arr(items) == [kind |-> "array", items |-> items]
Undefined == [kind |-> "undefined", name |-> "", id |-> 0]

\* f.bind(thisArg): a new function that calls f with this = thisArg
Bind(fn, this) == [kind |-> "bound", name |-> fn, id |-> this.id, this |-> this]

TypeOf(o) ==
    CASE o.kind \in {"arrow", "function", "class", "bound"} -> "function"
      [] o.kind \in {"instance", "array", "record"} -> "object"
      [] OTHER -> o.kind

\* Arrow functions (and bound functions) have no prototype property; ordinary
\* functions and classes have one whose constructor is the function itself.
HasOwnPrototype(o) == o.kind \in {"function", "class"}

isConstructor(o) == TypeOf(o) = "function" /\ HasOwnPrototype(o)

\* classes of the program that extend Middleware / ErrorMiddleware
MiddlewareClasses == {"LoggerMiddleware"}
ErrorMiddlewareClasses == {"MyErrorMiddleware"}

InstanceOfMiddleware(o) == o.kind = "instance" /\ o.name \in MiddlewareClasses

IsArray(o) == o.kind = "array"

\* classes whose instances expose a handle operation
HasHandle(o) ==
    o.kind = "instance" /\ o.name \in MiddlewareClasses \cup ErrorMiddlewareClasses

\* ------------------------------------------------------------- metadata
\* (variant) the elements of middlewares are not looked at
isControllerMetadataNoEvery(o) ==
    /\ TypeOf(o) = "object"
    /\ o.kind = "record"
    /\ TypeOf(o.path) = "string"
    /\ IsArray(o.middlewares)

isControllerMetadata(o) ==
    /\ TypeOf(o) = "object"
    /\ o.kind = "record"
    /\ TypeOf(o.path) = "string"
    /\ IsArray(o.middlewares)
    /\ \A i \in 1..Len(o.middlewares.items) :
          \/ TypeOf(o.middlewares.items[i]) = "function"
          \/ InstanceOfMiddleware(o.middlewares.items[i])

HandlerMethod == {"get", "post", "put", "delete", "patch"}

isHandlerMetadata(o) ==
    /\ TypeOf(o) = "object"
    /\ o.kind = "record"
    /\ TypeOf(o.method) = "string"
    /\ TypeOf(o.path) = "string"
    /\ IsArray(o.middlewares)
    /\ \A i \in 1..Len(o.middlewares.items) :
          \/ TypeOf(o.middlewares.items[i]) = "function"
          \/ InstanceOfMiddleware(o.middlewares.items[i])

\* ---------------------------------------------------- the loaded program
\* The controller classes of the program and the own properties of their
\* prototypes in creation order: key, array index of the key (-1 when the key
\* is not an integer index) and what the property descriptor's value is.
Prop(k, i, v) == [key |-> k, index |-> i, value |-> v]

ControllerClasses == {"UserController", "ItemController", "HealthController"}

OwnProperties(cls) ==
    CASE cls = "UserController" ->
            << Prop("constructor", -1, "function"),
               Prop("index", -1, "function"),
               Prop("create", -1, "function") >>
      [] cls = "ItemController" ->
            << Prop("constructor", -1, "function"),
               Prop("list", -1, "function"),
               Prop("0", 0, "function"),
               Prop("size", -1, "accessor") >>
      [] OTHER ->
            << Prop("constructor", -1, "function") >>

IsMethod(p) == p.key # "constructor" /\ p.value = "function"

MethodTargets ==
    UNION { { <<c, OwnProperties(c)[i].key>> :
                i \in {j \in 1..Len(OwnProperties(c)) : IsMethod(OwnProperties(c)[j])} } :
            c \in ControllerClasses }

\* Object.getOwnPropertyNames: integer-index keys in ascending numeric order,
\* then the other string keys in creation order.
RECURSIVE IndexKeysAscending(_, _)
IndexKeysAscending(props, todo) ==
    IF todo = {} THEN << >>
    ELSE LET m == CHOOSE i \in todo :
                    \A j \in todo : props[i].index <= props[j].index
         IN  << props[m] >> \o IndexKeysAscending(props, todo \ {m})

IsIndexKey(p) == p.index >= 0
IsStringKey(p) == p.index < 0

\* (variant) the keys as declared
DeclaredPropertyNames(props) == props

getOwnPropertyNames(props) ==
    IndexKeysAscending(props, {i \in 1..Len(props) : IsIndexKey(props[i])})
        \o SelectSeq(props, IsStringKey)

\* --------------------------------------------------------- middleware values
loggerInstance == Inst("LoggerMiddleware", 1)
LoggerMiddleware == Class("LoggerMiddleware")
auth == Arrow("auth")
audit == Arrow("audit")
jsonParser == Func("jsonParser")
errorInstance == Inst("MyErrorMiddleware", 1)
MyErrorMiddleware == Class("MyErrorMiddleware")

ControllerMetadata(path, middlewares) ==
    [kind |-> "record", path |-> path, middlewares |-> middlewares]

HandlerMetadata(method, path, middlewares) ==
    [kind |-> "record", method |-> Str(method), path |-> path,
     middlewares |-> middlewares]

\* Reflect.getMetadata('malmajs:controller', instance): found on the prototype
\* of the instance's class
GetControllerMetadata(instance) ==
    IF instance.kind = "instance" /\ instance.name \in ControllerClasses
    THEN controllerMeta[instance.name]
    ELSE Undefined

\* Reflect.getMetadata('malmajs:handler', instance, propertyKey)
GetHandlerMetadata(instance, key) ==
    IF <<instance.name, key>> \in DOMAIN handlerMeta
    THEN handlerMeta[<<instance.name, key>>]
    ELSE Undefined

\* ------------------------------------------------------------- container
\* applyExpressDecorator(app, container?): no container, or one whose get
\* constructs the class once (singleton) or anew on every get (transient).
Containers == {"none", "singleton", "transient"}

\* container.get(constructor): the instance and the new count of instances
ContainerGet(c, ctor, n) ==
    IF c = "singleton"
    THEN [instance |-> Inst(ctor.name, 0), n |-> n]
    ELSE [instance |-> Inst(ctor.name, n + 2), n |-> n + 1]

\* ------------------------------------------------ transformMiddlewares
Ok(v, n) == [err |-> "none", value |-> v, n |-> n]
Fail(e, n) == [err |-> e, value |-> Undefined, n |-> n]

\* x.handle.bind(x): a TypeError when x has no handle
BindHandle(x, n) ==
    IF HasHandle(x) THEN Ok(Bind("handle", x), n) ELSE Fail("TypeError", n)

\* the callback of middlewares.map
TransformMiddleware(middleware, c, n) ==
    IF isConstructor(middleware)
    THEN IF c = "none"
         THEN Fail("MissingResolver", n)
         ELSE LET g == ContainerGet(c, middleware, n)
              IN  BindHandle(g.instance, g.n)
    ELSE IF TypeOf(middleware) = "function"
         THEN Ok(middleware, n)
         ELSE BindHandle(middleware, n)

RECURSIVE TransformFrom(_, _, _, _, _)
TransformFrom(ms, i, acc, c, n) ==
    IF i > Len(ms) THEN Ok(acc, n)
    ELSE LET t == TransformMiddleware(ms[i], c, n)
         IN  IF t.err # "none" THEN Fail(t.err, t.n)
             ELSE TransformFrom(ms, i + 1, Append(acc, t.value), c, t.n)

transformMiddlewares(middlewares, c, n) == TransformFrom(middlewares, 1, << >>, c, n)

\* ------------------------------------------------------- useControllers
Route(method, path, handlers) ==
    [method |-> method, path |-> path, handlers |-> handlers]

Router(routes) == [kind |-> "router", routes |-> routes]

\* one app.use call: who made it, the path argument (Undefined when none was
\* given), the handlers in argument order and the router that follows them
Use(by, path, handlers, router) ==
    [by |-> by, path |-> path, handlers |-> handlers, router |-> router]

\* (variant) the bound method is passed before the middlewares
RegisterRouteMethodFirst(hm, handlers, method) ==
    Route(hm.method.name, hm.path.name, << method >> \o handlers)

\* router[handlerMetadata.method](path, ...transformMiddlewares(..), bound)
RegisterRoute(hm, handlers, method) ==
    Route(hm.method.name, hm.path.name, Append(handlers, method))

\* (variant) a method without valid metadata is passed over
RECURSIVE BindPropertiesSkipPlain(_, _, _, _, _, _)
BindPropertiesSkipPlain(names, i, instance, routes, c, n) ==
    IF i > Len(names) THEN Ok(routes, n)
    ELSE IF names[i].key = "constructor" \/ names[i].value # "function"
         THEN BindPropertiesSkipPlain(names, i + 1, instance, routes, c, n)
    ELSE LET hm == GetHandlerMetadata(instance, names[i].key)
         IN  IF ~isHandlerMetadata(hm)
             THEN BindPropertiesSkipPlain(names, i + 1, instance, routes, c, n)
             ELSE LET t == transformMiddlewares(hm.middlewares.items, c, n)
                  IN  IF t.err # "none" THEN Fail(t.err, t.n)
                      ELSE BindPropertiesSkipPlain(names, i + 1, instance,
                              Append(routes,
                                  RegisterRoute(hm, t.value,
                                                Bind(names[i].key, instance))),
                              c, t.n)

\* the loop over controllerPropertyNames, from position i
RECURSIVE BindProperties(_, _, _, _, _, _)
BindProperties(names, i, instance, routes, c, n) ==
    IF i > Len(names) THEN Ok(routes, n)
    ELSE IF names[i].key = "constructor"
         THEN BindProperties(names, i + 1, instance, routes, c, n)
    ELSE IF names[i].value # "function"
         THEN BindProperties(names, i + 1, instance, routes, c, n)
    ELSE LET hm == GetHandlerMetadata(instance, names[i].key)
         IN  IF ~isHandlerMetadata(hm) THEN Fail("InvalidMethodMetadata", n)
             ELSE LET t == transformMiddlewares(hm.middlewares.items, c, n)
                  IN  IF t.err # "none" THEN Fail(t.err, t.n)
                      ELSE BindProperties(names, i + 1, instance,
                              Append(routes,
                                  RegisterRoute(hm, t.value,
                                                Bind(names[i].key, instance))),
                              c, t.n)

\* app.use(controllerMetadata.path, ...transformMiddlewares(..), router)
MountController(cm, handlers, routes) ==
    Use("useControllers", cm.path, handlers, Router(routes))

\* (variant) every argument is taken to be an instance
ResolveControllerAsInstance(controller, c, n) == Ok(controller, n)

\* the controller instance of one argument of useControllers
ResolveController(controller, c, n) ==
    IF TypeOf(controller) # "object"
    THEN IF c = "none"
         THEN Fail("MissingResolver", n)
         ELSE LET g == ContainerGet(c, controller, n) IN Ok(g.instance, g.n)
    ELSE Ok(controller, n)

\* one iteration of the loop over controllers: the app.use call it ends with
BindController(controller, c, n) ==
    LET r == ResolveController(controller, c, n)
    IN  IF r.err # "none" THEN r
        ELSE LET cm == GetControllerMetadata(r.value)
             IN  IF ~isControllerMetadata(cm)
                 THEN Fail("InvalidControllerMetadata", r.n)
                 ELSE LET b == BindProperties(
                                 getOwnPropertyNames(OwnProperties(r.value.name)),
                                 1, r.value, << >>, c, r.n)
                      IN  IF b.err # "none" THEN b
                          ELSE LET t == transformMiddlewares(cm.middlewares.items, c, b.n)
                               IN  IF t.err # "none" THEN t
                                   ELSE Ok(MountController(cm, t.value, b.value), t.n)

\* (variant) the registration is put in front of the stack
AppUseUnshift(a, use) == << use >> \o a

\* app.use(...): Express adds the registration at the end of the app's stack
AppUse(a, use) == Append(a, use)

\* (variant) one router serves all mounts: each mount's router also holds the
\* routes registered before it
RECURSIVE RoutesOf(_)
RoutesOf(a) ==
    IF a = << >> THEN << >>
    ELSE (IF Head(a).by = "useControllers" THEN Head(a).router.routes ELSE << >>)
            \o RoutesOf(Tail(a))

RECURSIVE BindControllersSharedRouter(_, _, _, _, _)
BindControllersSharedRouter(controllers, i, a, c, n) ==
    IF i >= Len(controllers)
    THEN [err |-> "none", index |-> i, app |-> a, n |-> n]
    ELSE LET b == BindController(controllers[i + 1], c, n)
         IN  IF b.err # "none"
             THEN [err |-> b.err, index |-> i, app |-> a, n |-> b.n]
             ELSE BindControllersSharedRouter(controllers, i + 1,
                      AppUse(a, [b.value EXCEPT
                                   !.router.routes = RoutesOf(a) \o @]), c, b.n)

\* (variant) all or nothing: a failure leaves the app as it was
RECURSIVE BindControllersAtomic(_, _, _, _, _)
BindControllersAtomic(controllers, i, a, c, n) ==
    IF i >= Len(controllers)
    THEN [err |-> "none", index |-> i, app |-> a, n |-> n]
    ELSE LET b == BindController(controllers[i + 1], c, n)
         IN  IF b.err # "none"
             THEN [err |-> b.err, index |-> i, app |-> SubSeq(a, 1, Len(a) - i),
                   n |-> b.n]
             ELSE BindControllersAtomic(controllers, i + 1, AppUse(a, b.value), c, b.n)

\* the loop over controllers, from index i (0-based, as in the error text)
RECURSIVE BindControllers(_, _, _, _, _)
BindControllers(controllers, i, a, c, n) ==
    IF i >= Len(controllers)
    THEN [err |-> "none", index |-> i, app |-> a, n |-> n]
    ELSE LET b == BindController(controllers[i + 1], c, n)
         IN  IF b.err # "none"
             THEN [err |-> b.err, index |-> i, app |-> a, n |-> b.n]
             ELSE BindControllers(controllers, i + 1, AppUse(a, b.value), c, b.n)

\* --------------------------------------------------------------- inputs
userController == Inst("UserController", 1)
itemController == Inst("ItemController", 1)
healthController == Inst("HealthController", 1)

\* argument lists of useControllers
ControllerLists ==
    { << userController >>,
      << userController, itemController >>,
      << healthController, userController >>,
      << Class("UserController"), itemController >> }

\* argument lists of useMiddlewares
MiddlewareLists == { << loggerInstance >>, << LoggerMiddleware, loggerInstance >> }

\* arguments of useErrorMiddleware
ErrorMiddlewares == { errorInstance, MyErrorMiddleware }

\* applications of @Controller(path, middlewares): <<class, path, middlewares>>
ControllerDecorations ==
    { <<"HealthController", Str(""), Arr(<< >>)>>,
      <<"UserController", Str("/api"), Arr(<< LoggerMiddleware >>)>>,
      <<"UserController", Str("/api"), Arr(<< jsonParser >>)>>,
      <<"UserController", Num("42"), Arr(<< >>)>>,
      <<"UserController", Str("/api"), Num("42")>>,
      <<"UserController", Str("/api"), Arr(<< Num("42") >>)>> }

\* applications of @Get, @Post, @Put, @Delete, @Patch:
\* <<method, <<class, property key>>, path, middlewares>>
HandlerDecorations ==
    { <<"delete", <<"ItemController", "0">>, Str("/0"), Arr(<< >>)>>,
      <<"put", <<"UserController", "index">>, Str(""), Arr(<< LoggerMiddleware >>)>>,
      <<"patch", <<"UserController", "create">>, Str("/new"), Arr(<< jsonParser >>)>> }

\* ----------------------------------------------------------------- state
NoCall == [op |-> "none"]

Call(op, args, err, index, before, after) ==
    [op |-> op, args |-> args, err |-> err, index |-> index,
     before |-> before, after |-> after,
     controllerMeta |-> controllerMeta, handlerMeta |-> handlerMeta,
     freshBefore |-> fresh]

\* The program as loaded: UserController and ItemController are decorated;
\* ItemController's method 0 and HealthController carry no decorator.
LoadedControllerMeta ==
    [c \in ControllerClasses |->
        CASE c = "UserController" ->
                ControllerMetadata(Str("/users"), Arr(<< loggerInstance, auth >>))
          [] c = "ItemController" ->
                ControllerMetadata(Str("/items"), Arr(<< >>))
          [] OTHER -> Undefined]

LoadedHandlerMeta ==
    [t \in MethodTargets |->
        CASE t = <<"UserController", "index">> ->
                HandlerMetadata("get", Str(""), Arr(<< >>))
          [] t = <<"UserController", "create">> ->
                HandlerMetadata("post", Str("/new"), Arr(<< audit >>))
          [] t = <<"ItemController", "list">> ->
                HandlerMetadata("get", Str(""), Arr(<< >>))
          [] OTHER -> Undefined]

Init ==
    /\ container \in Containers
    /\ fresh = 0
    /\ controllerMeta = LoadedControllerMeta
    /\ handlerMeta = LoadedHandlerMeta
    /\ app = << >>
    /\ last = NoCall
    /\ prev = NoCall
    /\ nCalls = 0
    /\ nDecorations = 0
    /\ mws = << >>
    /\ out = NoCall

\* -------------------------------------------------------------- actions
\* @Controller(path, middlewares) applied to class cls
Controller(cls, path, middlewares) ==
    /\ nDecorations < MaxDecorations
    /\ nDecorations' = nDecorations + 1
    /\ controllerMeta' =
          [controllerMeta EXCEPT ![cls] = ControllerMetadata(path, middlewares)]
    /\ UNCHANGED <<container, fresh, handlerMeta, app, last, prev, nCalls, mws, out>>

\* (variant) the metadata is defined without the property key, so that all
\* methods of the class share it
HandlerDecoratorNoKey(method, target, path, middlewares) ==
    /\ nDecorations < MaxDecorations
    /\ nDecorations' = nDecorations + 1
    /\ handlerMeta' =
          [t \in DOMAIN handlerMeta |->
              IF t[1] = target[1] THEN HandlerMetadata(method, path, middlewares)
              ELSE handlerMeta[t]]
    /\ UNCHANGED <<container, fresh, controllerMeta, app, last, prev, nCalls, mws, out>>

\* the decorator made by createHandlerDecorator(method), applied to a method
HandlerDecorator(method, target, path, middlewares) ==
    /\ method \in HandlerMethod
    /\ nDecorations < MaxDecorations
    /\ nDecorations' = nDecorations + 1
    /\ handlerMeta' =
          [handlerMeta EXCEPT ![target] = HandlerMetadata(method, path, middlewares)]
    /\ UNCHANGED <<container, fresh, controllerMeta, app, last, prev, nCalls, mws, out>>

useControllers(controllers) ==
    /\ nCalls < MaxCalls
    /\ nCalls' = nCalls + 1
    /\ LET r == BindControllers(controllers, 0, app, container, fresh)
       IN  /\ app' = r.app
           /\ fresh' = r.n
           /\ last' = Call("useControllers", controllers, r.err, r.index, app, r.app)
    /\ prev' = last
    /\ UNCHANGED <<container, controllerMeta, handlerMeta, nDecorations, mws, out>>

useMiddlewares(middlewares) ==
    /\ nCalls < MaxCalls
    /\ nCalls' = nCalls + 1
    /\ LET t == transformMiddlewares(middlewares, container, fresh)
           a == IF t.err # "none" THEN app
                ELSE AppUse(app, Use("useMiddlewares", Undefined, t.value, Undefined))
       IN  /\ app' = a
           /\ fresh' = t.n
           /\ last' = Call("useMiddlewares", middlewares, t.err, 0, app, a)
    /\ prev' = last
    /\ UNCHANGED <<container, controllerMeta, handlerMeta, nDecorations, mws, out>>

\* the handler useErrorMiddleware passes to app.use
ErrorHandler(errorMiddleware, c, n) ==
    IF isConstructor(errorMiddleware)
    THEN IF c = "none"
         THEN Fail("MissingResolver", n)
         ELSE LET g == ContainerGet(c, errorMiddleware, n)
              IN  BindHandle(g.instance, g.n)
    ELSE BindHandle(errorMiddleware, n)

useErrorMiddleware(errorMiddleware) ==
    /\ nCalls < MaxCalls
    /\ nCalls' = nCalls + 1
    /\ LET t == ErrorHandler(errorMiddleware, container, fresh)
           a == IF t.err # "none" THEN app
                ELSE AppUse(app, Use("useErrorMiddleware", Undefined, << t.value >>, Undefined))
       IN  /\ app' = a
           /\ fresh' = t.n
           /\ last' = Call("useErrorMiddleware", << errorMiddleware >>, t.err, 0, app, a)
    /\ prev' = last
    /\ UNCHANGED <<container, controllerMeta, handlerMeta, nDecorations, mws, out>>

Next ==
    \/ \E d \in ControllerDecorations : Controller(d[1], d[2], d[3])
    \/ \E d \in HandlerDecorations : HandlerDecorator(d[1], d[2], d[3], d[4])
    \/ \E cs \in ControllerLists : useControllers(cs)
    \/ \E ms \in MiddlewareLists : useMiddlewares(ms)
    \/ \E e \in ErrorMiddlewares : useErrorMiddleware(e)

Spec == Init /\ [][Next]_vars

\* ------------------------------------------------ transformMiddlewares alone
\* middleware references a list may hold
MiddlewareRefs == { loggerInstance, LoggerMiddleware, auth, audit, jsonParser }

RECURSIVE SeqsUpTo(_, _)
SeqsUpTo(S, n) ==
    IF n = 0 THEN { << >> }
    ELSE LET shorter == SeqsUpTo(S, n - 1)
         IN  shorter \cup { Append(q, x) : q \in shorter, x \in S }

InitTransform ==
    /\ container \in Containers
    /\ fresh = 0
    /\ controllerMeta = LoadedControllerMeta
    /\ handlerMeta = LoadedHandlerMeta
    /\ app = << >>
    /\ last = NoCall
    /\ prev = NoCall
    /\ nCalls = 0
    /\ nDecorations = 0
    /\ mws \in SeqsUpTo(MiddlewareRefs, MaxLen)
    /\ out = NoCall

Transform ==
    /\ out = NoCall
    /\ LET t == transformMiddlewares(mws, container, fresh)
       IN  /\ out' = [op |-> "transformMiddlewares", err |-> t.err, value |-> t.value]
           /\ fresh' = t.n
    /\ UNCHANGED <<container, controllerMeta, handlerMeta, app, last, prev,
                   nCalls, nDecorations, mws>>

NextTransform == Transform

SpecTransform == InitTransform /\ [][NextTransform]_vars

\* ------------------------------------------------------- request dispatch
\* Express runs the handlers of the app.use call that mounts a router, then
\* those of the matching route, at the mount path followed by the route path.
HandlerChain(use, route) == use.handlers \o route.handlers
FullPath(use, route) == use.path.name \o route.path

\* ======================================================================
\* Properties
\* ======================================================================
\* the app.use calls the call l made
Added(l) == SubSeq(l.after, Len(l.before) + 1, Len(l.after))

IsBind(l) == l.op = "useControllers"

\* the property key of the method a route ends with, and the object it is
\* bound to
RouteMethod(route) == route.handlers[Len(route.handlers)]
RouteKeys(use) ==
    [j \in 1..Len(use.router.routes) |-> RouteMethod(use.router.routes[j]).name]

DeclaredAt(cls, key) ==
    CHOOSE i \in 1..Len(OwnProperties(cls)) : OwnProperties(cls)[i].key = key

Methods(cls) ==
    { OwnProperties(cls)[i].key :
        i \in { j \in 1..Len(OwnProperties(cls)) : IsMethod(OwnProperties(cls)[j]) } }

DeclaredBefore(cls, x, y) == DeclaredAt(cls, x) < DeclaredAt(cls, y)

\* x comes before y in Object.getOwnPropertyNames: integer-index keys first,
\* in ascending order, then the other keys as declared
EnumeratedBefore(cls, x, y) ==
    LET ix == OwnProperties(cls)[DeclaredAt(cls, x)].index
        iy == OwnProperties(cls)[DeclaredAt(cls, y)].index
    IN  IF ix >= 0 /\ iy >= 0 THEN ix < iy
        ELSE IF ix >= 0 THEN TRUE
        ELSE IF iy >= 0 THEN FALSE
        ELSE DeclaredBefore(cls, x, y)

\* the annotation shapes, stated from the data model
WellFormedRefs(v) ==
    /\ v.kind = "array"
    /\ \A i \in 1..Len(v.items) :
          v.items[i].kind \in {"arrow", "function", "class"}
             \/ (v.items[i].kind = "instance" /\ v.items[i].name \in MiddlewareClasses)

MalformedMount(m) ==
    \/ m = Undefined
    \/ m.path.kind # "string"
    \/ ~WellFormedRefs(m.middlewares)

HasRoute(l, cls, key) == l.handlerMeta[<<cls, key>>] # Undefined

\* every reference of the list is an instance or an arrow function
Direct(v) ==
    \A i \in 1..Len(v.items) : v.items[i].kind \in {"arrow", "instance"}

\* the class is annotated, all its methods are, and no list needs a resolver
FullyAnnotated(l, cls) ==
    /\ ~MalformedMount(l.controllerMeta[cls])
    /\ Direct(l.controllerMeta[cls].middlewares)
    /\ \A key \in Methods(cls) :
          HasRoute(l, cls, key) /\ Direct(l.handlerMeta[<<cls, key>>].middlewares)

\* the k-th app.use call of l mounts the k-th controller of l with one route
\* per method of its class, the routes ordered by Before
MountsInOrder(l, Before(_, _, _)) ==
    /\ Len(Added(l)) = Len(l.args)
    /\ \A k \in 1..Len(l.args) :
          LET use == Added(l)[k]
              cls == l.args[k].name
              keys == RouteKeys(use)
          IN  /\ use.by = "useControllers"
              /\ use.path = l.controllerMeta[cls].path
              /\ Len(keys) = Cardinality(Methods(cls))
              /\ { keys[j] : j \in 1..Len(keys) } = Methods(cls)
              /\ \A j \in 1..Len(keys) :
                    LET m == RouteMethod(use.router.routes[j])
                    IN  /\ m.kind = "bound"
                        /\ m.this.kind = "instance" /\ m.this.name = cls
                        /\ l.args[k].kind = "instance" => m.this = l.args[k]
              /\ \A x, y \in 1..Len(keys) :
                    x < y => Before(cls, keys[x], keys[y])

Resolves(ref, h) ==
    \/ ref.kind \in {"arrow", "function"} /\ h = ref
    \/ ref.kind = "instance" /\ h = Bind("handle", ref)
    \/ /\ ref.kind = "class"
       /\ h.kind = "bound" /\ h.name = "handle"
       /\ h.this.kind = "instance" /\ h.this.name = ref.name

\* m is the method key of the controller argument, bound to its instance
BoundTo(m, key, controller) ==
    /\ m.kind = "bound" /\ m.name = key
    /\ m.this.kind = "instance" /\ m.this.name = controller.name
    /\ controller.kind = "instance" => m.this = controller

\* C2: the chain of every registered route is the mount-level middleware in
\* order, then the route-level middleware in order, then the method bound to
\* the controller instance, at the path basePath + routePath.
C2_ChainOrder ==
    IsBind(last) =>
      \A k \in 1..Len(Added(last)) :
        LET use == Added(last)[k]
            cls == last.args[k].name
            cm == last.controllerMeta[cls]
            M == cm.middlewares.items
        IN  \A j \in 1..Len(use.router.routes) :
              LET route == use.router.routes[j]
                  chain == HandlerChain(use, route)
                  key == chain[Len(chain)].name
              IN  /\ key \in Methods(cls)
                  /\ LET hm == last.handlerMeta[<<cls, key>>]
                         R == hm.middlewares.items
                     IN  /\ FullPath(use, route) = cm.path.name \o hm.path.name
                         /\ route.method = hm.method.name
                         /\ Len(chain) = Len(M) + Len(R) + 1
                         /\ \A p \in 1..Len(M) : Resolves(M[p], chain[p])
                         /\ \A q \in 1..Len(R) : Resolves(R[q], chain[Len(M) + q])
                         /\ BoundTo(chain[Len(chain)], key, last.args[k])

\* mount middleware [A, B] and method middleware [C] give [A, B, C, handler]
C2_Witness ==
    \E i \in 1..Len(app) :
      /\ app[i].by = "useControllers"
      /\ \E j \in 1..Len(app[i].router.routes) :
           /\ HandlerChain(app[i], app[i].router.routes[j]) =
                << Bind("handle", loggerInstance), auth, audit,
                   Bind("create", userController) >>
           /\ FullPath(app[i], app[i].router.routes[j]) = "/users/new"
           /\ app[i].router.routes[j].method = "post"

\* every call leaves what the app held in place and adds after it
AppendOnly(l) ==
    /\ Len(l.before) <= Len(l.after)
    /\ SubSeq(l.after, 1, Len(l.before)) = l.before

\* C10: a useControllers call that fails at index i has added the mounts of
\* exactly the controllers 0..i-1, in order, and none for i or a later one.
C10_PartialBinding ==
    (IsBind(last) /\ last.err # "none") =>
      /\ app = last.after
      /\ AppendOnly(last)
      /\ last.index < Len(last.args)
      /\ Len(Added(last)) = last.index
      /\ \A k \in 1..Len(Added(last)) :
            LET use == Added(last)[k]
            IN  /\ use.by = "useControllers"
                /\ use.path = last.controllerMeta[last.args[k].name].path
                /\ \A j \in 1..Len(use.router.routes) :
                      BoundTo(RouteMethod(use.router.routes[j]),
                              RouteMethod(use.router.routes[j]).name, last.args[k])

C10_Witness ==
    /\ IsBind(last) /\ last.err # "none"
    /\ last.index = 1
    /\ Len(last.before) = 1
    /\ Len(app) = 2
    /\ app[2].path = Str("/users")

\* C7 (as stated): once an error middleware is registered it is the last
\* registration of the app, whatever is called afterwards.
C7_ErrorMiddlewareLast ==
    \A i \in 1..Len(app) : app[i].by = "useErrorMiddleware" => i = Len(app)

\* C7 (amended): every call only appends to the app's chain, and right after a
\* useErrorMiddleware call that returns without error the error handler (the
\* handle operation bound to the instance) is the last registration.
C7_LastWhenRegistered ==
    /\ last.op # "none" => (app = last.after /\ AppendOnly(last))
    /\ (last.op = "useErrorMiddleware" /\ last.err = "none") =>
          /\ Len(app) = Len(last.before) + 1
          /\ app[Len(app)].by = "useErrorMiddleware"
          /\ Len(app[Len(app)].handlers) = 1
          /\ Resolves(last.args[1], app[Len(app)].handlers[1])

C7_Witness ==
    /\ last.op = "useErrorMiddleware" /\ last.err = "none"
    /\ Len(last.before) = 1
    /\ app[1].by = "useControllers"
    /\ app[2].by = "useErrorMiddleware"

\* C9 (as stated): a metadata record, once attached, is never changed.
C9_WriteOnce ==
    [][ /\ \A c \in ControllerClasses :
              controllerMeta[c] # Undefined => controllerMeta'[c] = controllerMeta[c]
        /\ \A t \in MethodTargets :
              handlerMeta[t] # Undefined => handlerMeta'[t] = handlerMeta[t] ]_vars

\* C9 (amended): useControllers, useMiddlewares and useErrorMiddleware never
\* change metadata; a decorator application replaces the record of its own
\* target, attached or not, and changes no other target's record.
C9_ReadOnlyBinding ==
    [][ /\ nCalls' # nCalls =>
              (controllerMeta' = controllerMeta /\ handlerMeta' = handlerMeta)
        /\ Cardinality({ c \in ControllerClasses : controllerMeta'[c] # controllerMeta[c] })
             + Cardinality({ t \in MethodTargets : handlerMeta'[t] # handlerMeta[t] })
             <= 1 ]_vars

\* a decorated method has been decorated again, and a call was made after it
C9_Witness ==
    /\ handlerMeta[<<"UserController", "index">>].method = Str("put")
    /\ LoadedHandlerMeta[<<"UserController", "index">>].method = Str("get")
    /\ last.op = "useControllers"
    /\ last.handlerMeta = handlerMeta

\* C5: a controller whose mount metadata is absent or malformed makes
\* useControllers fail with the invalid-controller-metadata error when the
\* loop reaches it, and no mount is registered for it.
C5_MissingMetadata ==
    IsBind(last) =>
      \A k \in 1..Len(last.args) :
        MalformedMount(last.controllerMeta[last.args[k].name]) =>
          /\ last.err # "none"
          /\ last.index <= k - 1
          /\ Len(Added(last)) <= k - 1
          /\ (last.index = k - 1 /\ (last.args[k].kind = "instance" \/ container # "none"))
                => last.err = "InvalidControllerMetadata"

\* a controller whose middlewares hold an element that is no middleware
C5_Witness ==
    /\ IsBind(last)
    /\ last.err = "InvalidControllerMetadata"
    /\ last.args[last.index + 1] = userController
    /\ last.controllerMeta["UserController"].middlewares = Arr(<< Num("42") >>)
    /\ Added(last) = << >>

HasPlainMethod(l, cls) == \E key \in Methods(cls) : ~HasRoute(l, cls, key)

\* C6 (as stated): a method without route metadata is passed over; the
\* controller's annotated methods and its mount are registered all the same.
C6_PlainMethodSkipped ==
    (/\ IsBind(last)
     /\ \A k \in 1..Len(last.args) :
           LET cls == last.args[k].name
           IN  /\ last.args[k].kind = "instance"
               /\ ~MalformedMount(last.controllerMeta[cls])
               /\ Direct(last.controllerMeta[cls].middlewares)
               /\ \A key \in Methods(cls) :
                     HasRoute(last, cls, key)
                        => Direct(last.handlerMeta[<<cls, key>>].middlewares))
    => /\ last.err = "none"
       /\ Len(Added(last)) = Len(last.args)
       /\ \A k \in 1..Len(last.args) :
             { RouteKeys(Added(last)[k])[j] : j \in 1..Len(RouteKeys(Added(last)[k])) }
                = { key \in Methods(last.args[k].name) :
                       HasRoute(last, last.args[k].name, key) }

\* C6 (amended): own properties that are not functions are passed over
\* silently, but an own method (other than the constructor) without route
\* metadata makes useControllers fail with the invalid-method-metadata error:
\* no mount is registered for its controller.
C6_PlainMethodFails ==
    IsBind(last) =>
      /\ \A k \in 1..Len(last.args) :
           LET cls == last.args[k].name
           IN  (/\ ~MalformedMount(last.controllerMeta[cls])
                /\ HasPlainMethod(last, cls))
               => /\ last.err # "none"
                  /\ last.index <= k - 1
                  /\ Len(Added(last)) <= k - 1
                  /\ (/\ last.index = k - 1
                      /\ last.args[k].kind = "instance"
                      /\ \A key \in Methods(cls) :
                            HasRoute(last, cls, key)
                               => Direct(last.handlerMeta[<<cls, key>>].middlewares))
                        => last.err = "InvalidMethodMetadata"
      /\ \A k \in 1..Len(Added(last)) :
           { RouteKeys(Added(last)[k])[j] : j \in 1..Len(RouteKeys(Added(last)[k])) }
              = Methods(last.args[k].name)

\* the second controller has a method without route metadata
C6_Witness ==
    /\ IsBind(last)
    /\ last.args = << userController, itemController >>
    /\ last.err = "InvalidMethodMetadata"
    /\ last.index = 1
    /\ ~HasRoute(last, "ItemController", "0")
    /\ Len(Added(last)) = 1

HasClassRef(v) == \E i \in 1..Len(v.items) : v.items[i].kind = "class"

\* no list of the class holds an ordinary function
NoOrdinaryFunction(l, cls) ==
    /\ \A i \in 1..Len(l.controllerMeta[cls].middlewares.items) :
          l.controllerMeta[cls].middlewares.items[i].kind # "function"
    /\ \A key \in Methods(cls) :
          \A i \in 1..Len(l.handlerMeta[<<cls, key>>].middlewares.items) :
             l.handlerMeta[<<cls, key>>].middlewares.items[i].kind # "function"

Annotated(l, cls) ==
    /\ ~MalformedMount(l.controllerMeta[cls])
    /\ ~HasPlainMethod(l, cls)

NeedsResolver(l, cls) ==
    \/ HasClassRef(l.controllerMeta[cls].middlewares)
    \/ \E key \in Methods(cls) : HasClassRef(l.handlerMeta[<<cls, key>>].middlewares)

\* C4: without a container a class reference (controller, middleware of any
\* list, error middleware) makes the call fail with the missing-resolver
\* error; with a container that returns a valid instance the call succeeds
\* and registers that instance's routes or handle operation.
C4_Resolver ==
    /\ (last.op = "useErrorMiddleware" /\ last.args[1].kind = "class") =>
          IF container = "none"
          THEN last.err = "MissingResolver" /\ last.after = last.before
          ELSE /\ last.err = "none"
               /\ Resolves(last.args[1], last.after[Len(last.after)].handlers[1])
    /\ (last.op = "useMiddlewares" /\ HasClassRef(Arr(last.args))) =>
          IF container = "none"
          THEN last.err = "MissingResolver" /\ last.after = last.before
          ELSE /\ last.err = "none"
               /\ Len(Added(last)) = 1
               /\ Len(Added(last)[1].handlers) = Len(last.args)
               /\ \A i \in 1..Len(last.args) :
                     Resolves(last.args[i], Added(last)[1].handlers[i])
    /\ IsBind(last) =>
          \A k \in 1..Len(last.args) :
            LET cls == last.args[k].name
            IN  /\ (container = "none" /\ last.args[k].kind = "class") =>
                      /\ last.err # "none"
                      /\ last.index <= k - 1
                      /\ last.index = k - 1 => last.err = "MissingResolver"
                /\ (container = "none" /\ Annotated(last, cls) /\ NeedsResolver(last, cls)) =>
                      /\ last.err # "none"
                      /\ last.index <= k - 1
                      /\ last.index = k - 1 => last.err = "MissingResolver"
                /\ (/\ container # "none"
                    /\ \A x \in 1..Len(last.args) :
                          /\ Annotated(last, last.args[x].name)
                          /\ NoOrdinaryFunction(last, last.args[x].name))
                   => /\ last.err = "none"
                      /\ Len(Added(last)) = Len(last.args)
                      /\ \A j \in 1..Len(Added(last)[k].router.routes) :
                            BoundTo(RouteMethod(Added(last)[k].router.routes[j]),
                                    RouteMethod(Added(last)[k].router.routes[j]).name,
                                    last.args[k])

\* a controller passed as a class with no container
C4_Witness ==
    /\ container = "none"
    /\ IsBind(last)
    /\ last.args[1].kind = "class"
    /\ last.err = "MissingResolver"
    /\ last.index = 0

\* neither call created an instance the other did not see
SameInstances(l1, l2) ==
    container # "transient" \/ (l1.freshBefore = l2.freshBefore /\ l2.freshBefore = fresh)

\* C8: with the metadata unchanged and the same instances, a second
\* useControllers call with the same controllers makes the same registrations
\* (verbs, paths, chains, mounts, in the same order) as the first.
C8_Idempotent ==
    (/\ IsBind(prev) /\ IsBind(last)
     /\ last.args = prev.args
     /\ last.controllerMeta = prev.controllerMeta
     /\ last.handlerMeta = prev.handlerMeta
     /\ SameInstances(prev, last))
    => /\ Added(last) = Added(prev)
       /\ last.err = prev.err
       /\ last.index = prev.index

C8_Witness ==
    /\ IsBind(prev) /\ IsBind(last)
    /\ last.args = prev.args
    /\ last.err = "none"
    /\ Len(Added(last)) = 2
    /\ Added(last) = Added(prev)
    /\ app = Added(prev) \o Added(last)

\* C3: a function passed directly comes back as the same function, the
\* container not consulted, and a Middleware object as its handle operation
\* bound to it.
C3_FunctionsUnchanged ==
    (/\ out.op = "transformMiddlewares"
     /\ \A i \in 1..Len(mws) : mws[i].kind # "class")
    => /\ out.err = "none"
       /\ fresh = 0
       /\ Len(out.value) = Len(mws)
       /\ \A i \in 1..Len(mws) :
             /\ TypeOf(mws[i]) = "function" => out.value[i] = mws[i]
             /\ mws[i].kind = "instance" => out.value[i] = Bind("handle", mws[i])

====
